---- MODULE Spec2Model ----
(***************************************************************************)
(* A model of phys2bids' physio_obj.py: the BlueprintInput container, its  *)
(* trigger-based slicing (__getitem__), check_trigger_amount,               *)
(* remove_channels, to_frequency and the equality test are_equal.          *)
(*                                                                         *)
(* Representation.                                                         *)
(*  - A numpy array is a buffer of `mem` seen through a list of 0-based    *)
(*    positions: [buf |-> b, at |-> <<p1, ..., pk>>].  Basic slicing of an *)
(*    array returns a view, so the array a slice returns shares the buffer *)
(*    of the array it was cut from; an in-place `-=` writes the buffer.    *)
(*  - Python's None is the empty tuple <<>> and a present value v is <<v>>.*)
(*  - Samples, times, thresholds and repetition times are integers; the    *)
(*    frequencies are drawn from Freqs, whose ratios are exact in binary   *)
(*    floating point, so floor(f_n / f_trig * i) is computed exactly.      *)
(*  - `raised` is the exception the last call ended with ("none" when it   *)
(*    returned), `call` the last call and its arguments, `ncalls` the      *)
(*    number of calls made on the containers since construction, and `pre` *)
(*    the memory, the containers and the call as they were when the last   *)
(*    call was entered (None before any call).                             *)
(*  - `out` is what the last call returned when that is not a container:   *)
(*    the SingleFrequencyPhysio of to_frequency, the boolean of __eq__     *)
(*    (None when the call returned nothing or raised).                     *)
(***************************************************************************)
EXTENDS Integers, Sequences, FiniteSets, TLC

VARIABLES mem, src, res, call, raised, ncalls, pre, out

vars == <<mem, src, res, call, raised, ncalls, pre, out>>

(* Bounds of the model. *)
MaxLen == 3
MaxChannels == 2
MaxCalls == 2

(* Input palettes. *)
Freqs == {0, 1, 2}
Samples == {0, 3}
Thresholds == {2, 3}
RepetitionTimes == {0, 2}

None == <<>>
Some(v) == <<v>>
IsNone(o) == o = <<>>
Val(o) == o[1]

Min(a, b) == IF a < b THEN a ELSE b
Max(a, b) == IF a < b THEN b ELSE a

(***************************************************************************)
(* Python helpers.                                                         *)
(***************************************************************************)

(* Truthiness of an optional integer: None and 0 are falsy. *)
Truthy(o) == ~IsNone(o) /\ Val(o) # 0

(* list[i] with a Python index: the 1-based position, 0 when out of range. *)
PyIndex(n, i) ==
    IF i >= 0 /\ i < n THEN i + 1
    ELSE IF i < 0 /\ i >= -n THEN n + i + 1
    ELSE 0

(* slice.indices for a positive step: a bound clamped into 0..len. *)
ClampBound(b, len, dflt) ==
    IF IsNone(b) THEN dflt
    ELSE IF Val(b) < 0 THEN Max(Val(b) + len, 0)
    ELSE Min(Val(b), len)

(* The 1-based positions a slice(start, stop, step) selects in a sequence of
   length len (step None is 1; the step is positive). *)
SlicePositions(len, start, stop, step) ==
    LET lo == ClampBound(start, len, 0)
        hi == ClampBound(stop, len, len)
        st == IF IsNone(step) THEN 1 ELSE Val(step)
        cnt == IF hi > lo THEN ((hi - lo - 1) \div st) + 1 ELSE 0
    IN  [k \in 1..cnt |-> lo + (k - 1) * st + 1]

(* array[slice]: a view on the same buffer. *)
SliceArray(arr, start, stop, step) ==
    LET pos == SlicePositions(Len(arr.at), start, stop, step)
    IN  [buf |-> arr.buf, at |-> [k \in 1..Len(pos) |-> arr.at[pos[k]]]]

(* The samples of an array, read from memory. *)
Read(m, arr) == [k \in 1..Len(arr.at) |-> m[arr.buf][arr.at[k] + 1]]

(***************************************************************************)
(* is_valid, has_size, BlueprintInput.__init__                             *)
(***************************************************************************)

(* is_valid(var, var_type): "none", or the AttributeError it raises. *)
is_valid(isInstance) == IF isInstance THEN "none" ELSE "AttributeError"

(* has_size that cuts a longer list and never pads a shorter one. *)
has_size_unpadded(var, data_size, token, tokenIsElemType) ==
    [raised |-> "none",
     value |-> IF Len(var) > data_size THEN SubSeq(var, 1, data_size) ELSE var]

(* has_size(var, data_size, token); tokenIsElemType says whether the token is
   an instance of type(var[0]), which is looked at only when padding. *)
has_size(var, data_size, token, tokenIsElemType) ==
    LET cut == IF Len(var) > data_size THEN SubSeq(var, 1, data_size) ELSE var
    IN  IF Len(cut) < data_size
        THEN IF Len(cut) = 0
             THEN [raised |-> "IndexError", value |-> cut]
             ELSE IF is_valid(tokenIsElemType) # "none"
             THEN [raised |-> is_valid(tokenIsElemType), value |-> cut]
             ELSE [raised |-> "none",
                   value |-> cut \o [k \in 1..(data_size - Len(cut)) |-> token]]
        ELSE [raised |-> "none", value |-> cut]

n_channels(obj) == Len(obj.timeseries)

(* BlueprintInput(timeseries, frequencies, channel_names, units,
   trigger_channel, num_timepoints_found, thr, time_offset).  floatFreqs says
   whether frequencies[0] is a float (the padding token 0.0 is one). *)
BlueprintInput(timeseries, frequencies, floatFreqs, channel_names, units, trigger_channel, num_timepoints_found, thr, time_offset) ==
    LET n == Len(timeseries)
        f == has_size(frequencies, n, 0, floatFreqs)
        c == has_size(channel_names, n, "unknown", TRUE)
        u == has_size(units, n, "[]", TRUE)
        t == is_valid(~IsNone(trigger_channel))
        err == IF f.raised # "none" THEN f.raised
               ELSE IF c.raised # "none" THEN c.raised
               ELSE IF u.raised # "none" THEN u.raised
               ELSE t
    IN  [raised |-> err,
         obj |-> [timeseries |-> timeseries,
                  frequencies |-> f.value,
                  channel_names |-> c.value,
                  units |-> u.value,
                  trigger_channel |-> trigger_channel,
                  num_timepoints_found |-> num_timepoints_found,
                  thr |-> thr,
                  time_offset |-> time_offset]]

(***************************************************************************)
(* BlueprintInput.__getitem__                                              *)
(***************************************************************************)

(* The slicing requests: an integer, or slice(start, stop, step). *)
IntIdx(i) == [kind |-> "int", start |-> Some(i), stop |-> None, step |-> None]
SliceIdx(a, b, s) == [kind |-> "slice", start |-> a, stop |-> b, step |-> s]

(* `if not self.trigger_channel: self.trigger_channel = 0` *)
TriggerOrZero(self) ==
    IF Truthy(self.trigger_channel) THEN self.trigger_channel ELSE Some(0)

(* The request with a negative integer left as it is. *)
ResolvedSliceUnwrapped(idx, trigger_length) ==
    IF idx.kind = "int"
    THEN [start |-> Val(idx.start), stop |-> Val(idx.start) + 1, step |-> None]
    ELSE [start |-> IF IsNone(idx.start) THEN 0 ELSE Val(idx.start),
          stop |-> IF IsNone(idx.stop) THEN trigger_length ELSE Val(idx.stop),
          step |-> idx.step]

(* idx as the slice the method works on: an integer i, counted from the end
   of the trigger when negative, becomes slice(i, i + 1); a missing start is
   0 and a missing stop the trigger's length. *)
ResolvedSlice(idx, trigger_length) ==
    IF idx.kind = "int"
    THEN LET i == IF Val(idx.start) < 0 THEN trigger_length + Val(idx.start)
                  ELSE Val(idx.start)
         IN  [start |-> i, stop |-> i + 1, step |-> None]
    ELSE [start |-> IF IsNone(idx.start) THEN 0 ELSE Val(idx.start),
          stop |-> IF IsNone(idx.stop) THEN trigger_length ELSE Val(idx.stop),
          step |-> idx.step]

(* `start >= trigger_length or stop > trigger_length` *)
OutOfBounds(sl, trigger_length) ==
    sl.start >= trigger_length \/ sl.stop > trigger_length

(* The rescaling rounded up instead of down. *)
RescaleCeil(fn, ftrig, v) == 0 - ((0 - fn * v) \div ftrig)

(* int(np.floor(frequencies[n] / frequencies[trigger] * v)) *)
Rescale(fn, ftrig, v) == (fn * v) \div ftrig

(* The slice of channel n without the clamp of the stop to the channel's own
   length. *)
ChannelSliceUnclamped(fn, ftrig, sl, return_instant, trigger_length, channel_length) ==
    LET start == IF sl.start # 0 THEN Rescale(fn, ftrig, sl.start) ELSE sl.start
        stop == IF sl.stop # 0 THEN Rescale(fn, ftrig, sl.stop) ELSE sl.stop
        step == IF Truthy(sl.step) THEN Some(Rescale(fn, ftrig, Val(sl.step)))
                ELSE sl.step
    IN  [start |-> start,
         stop |-> IF start = stop \/ return_instant THEN start + 1 ELSE stop,
         step |-> step]

(* The slice of channel n: start, stop and step rescaled when they are neither
   None nor 0, then the stop corrected. *)
ChannelSlice(fn, ftrig, sl, return_instant, trigger_length, channel_length) ==
    LET start == IF sl.start # 0 THEN Rescale(fn, ftrig, sl.start) ELSE sl.start
        stop == IF sl.stop # 0 THEN Rescale(fn, ftrig, sl.stop) ELSE sl.stop
        step == IF Truthy(sl.step) THEN Some(Rescale(fn, ftrig, Val(sl.step)))
                ELSE sl.step
    IN  [start |-> start,
         stop |-> IF start = stop \/ return_instant THEN start + 1
                  ELSE IF trigger_length = sl.stop THEN channel_length
                  ELSE stop,
         step |-> step]

(* self[idx]: the exception raised or the container returned, and the value
   self.trigger_channel is left with. *)
getitem(self, idx) ==
    LET trig == TriggerOrZero(self)
        t == PyIndex(n_channels(self), Val(trig))
        fail(e) == [raised |-> e, obj |-> self, trigger_channel |-> trig]
    IN  IF t = 0 THEN fail("IndexError")
        ELSE
        LET trigger_length == Len(self.timeseries[t].at)
            return_instant == idx.kind = "int"
            sl == ResolvedSlice(idx, trigger_length)
            ftrig == self.frequencies[t]
            divides == sl.start # 0 \/ sl.stop # 0 \/ Truthy(sl.step)
        IN  IF OutOfBounds(sl, trigger_length) THEN fail("IndexError")
            ELSE IF divides /\ ftrig = 0 THEN fail("ZeroDivisionError")
            ELSE
            LET new_idx == [n \in 1..n_channels(self) |->
                              ChannelSlice(self.frequencies[n], ftrig, sl,
                                           return_instant, trigger_length,
                                           Len(self.timeseries[n].at))]
                sliced_timeseries == [n \in 1..n_channels(self) |->
                              SliceArray(self.timeseries[n],
                                         Some(new_idx[n].start),
                                         Some(new_idx[n].stop),
                                         new_idx[n].step)]
                new == BlueprintInput(sliced_timeseries, self.frequencies, TRUE,
                                      self.channel_names, self.units, trig,
                                      self.num_timepoints_found, self.thr,
                                      self.time_offset)
            IN  IF \E n \in 1..n_channels(self) : new_idx[n].step = Some(0)
                THEN fail("ValueError")
                ELSE [raised |-> new.raised, obj |-> new.obj,
                      trigger_channel |-> trig]

(***************************************************************************)
(* The containers in scope: `src`, built by the constructor, and `res`,    *)
(* what the last slicing returned (None before any).                       *)
(***************************************************************************)

Exists(target) == IF target = "src" THEN ~IsNone(src) ELSE ~IsNone(res)
Obj(target) == IF target = "src" THEN Val(src) ELSE Val(res)

(* Entering a call: the state it starts from is kept, the call is counted. *)
Enter ==
    /\ pre' = Some([mem |-> mem, src |-> src, res |-> res, call |-> call,
                    raised |-> raised])
    /\ ncalls' = ncalls + 1

(* res = target[idx] *)
Getitem(target, idx) ==
    /\ Exists(target)
    /\ Enter
    /\ LET self == Obj(target)
           r == getitem(self, idx)
           kept == [self EXCEPT !.trigger_channel = r.trigger_channel]
       IN  /\ src' = IF target = "src" THEN Some(kept) ELSE src
           /\ res' = IF r.raised = "none" THEN Some(r.obj)
                     ELSE IF target = "res" THEN Some(kept)
                     ELSE res
           /\ raised' = r.raised
    /\ call' = [op |-> "getitem", target |-> target, idx |-> idx]
    /\ UNCHANGED <<mem, out>>

(***************************************************************************)
(* BlueprintInput.check_trigger_amount                                     *)
(***************************************************************************)

(* The keys itertools.groupby yields: one per run of equal consecutive items. *)
RECURSIVE GroupKeys(_)
GroupKeys(s) ==
    IF s = <<>> THEN <<>>
    ELSE LET rest == GroupKeys(Tail(s))
         IN  IF rest # <<>> /\ Head(rest) = Head(s) THEN rest
             ELSE <<Head(s)>> \o rest

(* The number of samples above the threshold, not of their runs. *)
CountTrue(timepoints) == Cardinality({k \in DOMAIN timepoints : timepoints[k]})

(* len([is_true for is_true, _ in groupby(timepoints, ...) if is_true]) *)
CountTrueGroups(timepoints) ==
    LET keys == GroupKeys(timepoints)
    IN  Cardinality({k \in DOMAIN keys : keys[k]})

(* The 0-based index of the last True, 0 when none. *)
ArgmaxLast(timepoints) ==
    IF \E k \in DOMAIN timepoints : timepoints[k]
    THEN (CHOOSE k \in DOMAIN timepoints :
            timepoints[k] /\ \A j \in (k + 1)..Len(timepoints) : ~timepoints[j]) - 1
    ELSE 0

(* timepoints.argmax(): the 0-based index of the first True, 0 when none. *)
Argmax(timepoints) ==
    IF \E k \in DOMAIN timepoints : timepoints[k]
    THEN (CHOOSE k \in DOMAIN timepoints :
            timepoints[k] /\ \A j \in 1..(k - 1) : ~timepoints[j]) - 1
    ELSE 0

(* The offset corrected for any mismatch, also for more timepoints found than
   expected. *)
CorrectedOffsetAnyMismatch(time_offset, num_timepoints_found, num_timepoints_expected, tr) ==
    IF num_timepoints_expected # 0
       /\ num_timepoints_found # num_timepoints_expected
       /\ tr # 0
    THEN time_offset - (num_timepoints_expected - num_timepoints_found) * tr
    ELSE time_offset

(* The offset after the check of the expected number of timepoints. *)
CorrectedOffset(time_offset, num_timepoints_found, num_timepoints_expected, tr) ==
    IF num_timepoints_expected # 0
       /\ ~(num_timepoints_found > num_timepoints_expected)
       /\ num_timepoints_found < num_timepoints_expected
       /\ tr # 0
    THEN time_offset - (num_timepoints_expected - num_timepoints_found) * tr
    ELSE time_offset

(* array = array - value on a copy: the buffer is left as it was. *)
SubtractCopy(m, arr, value) == m

(* array -= value, in place: the buffer's cells the array sees are written. *)
SubtractInPlace(m, arr, value) ==
    [m EXCEPT ![arr.buf] =
        [j \in DOMAIN @ |->
            IF \E k \in DOMAIN arr.at : arr.at[k] + 1 = j THEN @[j] - value
            ELSE @[j]]]

(* self.check_trigger_amount(thr, num_timepoints_expected, tr) with a given
   threshold: the exception raised, or the container and the memory after. *)
check_trigger_amount(m, self, thr, num_timepoints_expected, tr) ==
    LET fail(e) == [raised |-> e, obj |-> self, mem |-> m]
    IN  IF IsNone(self.trigger_channel) THEN fail("TypeError")
        ELSE IF PyIndex(n_channels(self), Val(self.trigger_channel)) = 0
        THEN fail("IndexError")
        ELSE
        LET t == PyIndex(n_channels(self), Val(self.trigger_channel))
            trigger == Read(m, self.timeseries[t])
            timepoints == [k \in DOMAIN trigger |-> trigger[k] > thr]
            num_timepoints_found == CountTrueGroups(timepoints)
            time == Read(m, self.timeseries[1])
        IN  IF Len(timepoints) = 0 THEN fail("ValueError")
            ELSE IF Argmax(timepoints) >= Len(time) THEN fail("IndexError")
            ELSE
            LET time_offset == CorrectedOffset(time[Argmax(timepoints) + 1],
                                               num_timepoints_found,
                                               num_timepoints_expected, tr)
            IN  [raised |-> "none",
                 obj |-> [self EXCEPT !.thr = Some(thr),
                                      !.time_offset = time_offset,
                                      !.num_timepoints_found =
                                          Some(num_timepoints_found)],
                 mem |-> SubtractInPlace(m, self.timeseries[1], time_offset)]

(* target.check_trigger_amount(thr, num_timepoints_expected, tr) *)
CheckTriggerAmount(target, thr, num_timepoints_expected, tr) ==
    /\ Exists(target)
    /\ Enter
    /\ LET r == check_trigger_amount(mem, Obj(target), thr,
                                     num_timepoints_expected, tr)
       IN  /\ mem' = r.mem
           /\ src' = IF target = "src" THEN Some(r.obj) ELSE src
           /\ res' = IF target = "res" THEN Some(r.obj) ELSE res
           /\ raised' = r.raised
    /\ call' = [op |-> "check_trigger_amount", target |-> target, thr |-> thr,
                num_timepoints_expected |-> num_timepoints_expected, tr |-> tr]
    /\ UNCHANGED out

(***************************************************************************)
(* BlueprintInput.remove_channels                                          *)
(***************************************************************************)

(* The list without its entries at the 0-based indices in S. *)
Without(list, S) ==
    LET keep == {k \in DOMAIN list : (k - 1) \notin S}
    IN  [i \in 1..Cardinality(keep) |->
           list[CHOOSE k \in keep : Cardinality({j \in keep : j < k}) = i - 1]]

(* remove_channels that deletes the entries at the indices and leaves
   trigger_channel as it is. *)
RemoveChannelsKeepingTrigger(target, channel_idx) ==
    /\ Exists(target)
    /\ Enter
    /\ LET self == Obj(target)
           new == [self EXCEPT !.timeseries = Without(@, channel_idx),
                               !.frequencies = Without(@, channel_idx),
                               !.channel_names = Without(@, channel_idx),
                               !.units = Without(@, channel_idx)]
       IN  /\ src' = IF target = "src" THEN Some(new) ELSE src
           /\ res' = IF target = "res" THEN Some(new) ELSE res
    /\ raised' = "none"
    /\ call' = [op |-> "remove_channels", target |-> target,
                channel_idx |-> channel_idx]
    /\ UNCHANGED <<mem, out>>

(* target.remove_channels(channel_idx).  The first statement looks up
   np.as_array, a name numpy does not have: the call ends there with an
   AttributeError and nothing of the container is touched. *)
RemoveChannels(target, channel_idx) ==
    /\ Exists(target)
    /\ Enter
    /\ raised' = "AttributeError"
    /\ call' = [op |-> "remove_channels", target |-> target,
                channel_idx |-> channel_idx]
    /\ UNCHANGED <<mem, src, res, out>>

(***************************************************************************)
(* BlueprintInput.to_frequency                                             *)
(***************************************************************************)

(* `frequency in self.frequencies` *)
Contains(list, v) == \E k \in DOMAIN list : list[k] = v

(* self.to_frequency(frequency): the exception raised and the object returned.
   With no channel at the frequency, the message of the ValueError is built
   first, by str.join on the frequencies: they are numbers, join raises
   TypeError on the first one, and only a container with no frequency at all
   gets to raise the ValueError.  With a channel at the frequency, the next
   statement compares self.frequencies with `frequencies`, a name bound nowhere
   in the method or the module: NameError, before the copy is made and before
   any SingleFrequencyPhysio is built. *)
to_frequency(self, frequency) ==
    IF ~Contains(self.frequencies, frequency)
    THEN IF self.frequencies = <<>>
         THEN [raised |-> "ValueError", out |-> None]
         ELSE [raised |-> "TypeError", out |-> None]
    ELSE [raised |-> "NameError", out |-> None]

(* out = target.to_frequency(frequency) *)
ToFrequency(target, frequency) ==
    /\ Exists(target)
    /\ Enter
    /\ LET r == to_frequency(Obj(target), frequency)
       IN  /\ raised' = r.raised
           /\ out' = r.out
    /\ call' = [op |-> "to_frequency", target |-> target,
                frequency |-> frequency]
    /\ UNCHANGED <<mem, src, res>>

(***************************************************************************)
(* are_equal, BlueprintInput.__eq__                                        *)
(***************************************************************************)

(* The keys of a container's __dict__, in the order __init__ sets them. *)
Fields ==
    <<"timeseries", "frequencies", "channel_names", "units", "trigger_channel",
      "num_timepoints_found", "thr", "time_offset">>

(* The __dict__ of a container, each array of timeseries by its samples. *)
Dict(m, obj) ==
    [obj EXCEPT !.timeseries =
        [n \in DOMAIN obj.timeseries |-> Read(m, obj.timeseries[n])]]

(* The truth value of `a == b` for two distinct 1D arrays, as a list
   comparison asks for it: the arrays are compared element by element into an
   array, whose truth value exists only when it has exactly one element; for
   any other size, and for shapes that do not broadcast, ValueError. *)
ArrayTruth(a, b) ==
    IF Len(a) = 1 /\ Len(b) = 1
    THEN IF a[1] = b[1] THEN "equal" ELSE "differ"
    ELSE "ValueError"

(* list == list on two lists of arrays: lists of different lengths differ
   without a look at the items; otherwise the outcome of the first pair of
   items that is not equal, an exception included. *)
ListsOfArraysEqual(x, y) ==
    IF Len(x) # Len(y) THEN "differ"
    ELSE LET o == [k \in DOMAIN x |-> ArrayTruth(x[k], y[k])]
             bad == {k \in DOMAIN x : o[k] # "equal"}
         IN  IF bad = {} THEN "equal"
             ELSE o[CHOOSE k \in bad : \A j \in bad : k <= j]

(* dict == dict: dicts of different sizes differ; the values are compared key
   by key in the order of the left dict, timeseries first. *)
DictsEqual(a, b) ==
    IF Cardinality(DOMAIN a) # Cardinality(DOMAIN b) THEN "differ"
    ELSE IF "timeseries" \notin DOMAIN b THEN "differ"
    ELSE LET ts == ListsOfArraysEqual(a.timeseries, b.timeseries)
         IN  IF ts # "equal" THEN ts
             ELSE IF \A k \in DOMAIN a \ {"timeseries"} :
                        k \in DOMAIN b /\ a[k] = b[k]
             THEN "equal"
             ELSE "differ"

(* ndarray.all(): every element is non-zero. *)
All(a) == \A k \in DOMAIN a : a[k] # 0

(* `self['timeseries'][i].all() == other['timeseries'][i].all()` *)
SamplesAgree(a, b) == All(a) = All(b)

(* _deal_with_dict_value_error(self, other), self a container's dict. *)
deal_with_dict_value_error(a, b) ==
    IF DOMAIN a = DOMAIN b
    THEN /\ \A i \in DOMAIN a.timeseries :
              SamplesAgree(a.timeseries[i], b.timeseries[i])
         /\ \A k \in DOMAIN a \ {"timeseries"} : a[k] = b[k]
    ELSE FALSE

(* are_equal(self, other), self a container and other the dict of a container
   or a plain dict: the comparison of the dicts, and the value by value
   comparison when that raises ValueError. *)
are_equal(a, b) ==
    LET first == DictsEqual(a, b)
    IN  IF first = "ValueError" THEN deal_with_dict_value_error(a, b)
        ELSE first = "equal"

(* out = (src == other), other given by the dict of its fields, arrays by
   their samples: a container other than src, or a plain dict. *)
Equals(other) ==
    /\ Exists("src")
    /\ Enter
    /\ out' = Some(are_equal(Dict(mem, Val(src)), other))
    /\ raised' = "none"
    /\ call' = [op |-> "eq", target |-> "src", other |-> other]
    /\ UNCHANGED <<mem, src, res>>

(***************************************************************************)
(* Construction: the arguments the containers are built from.              *)
(***************************************************************************)

(* A freshly allocated array over the whole of buffer b. *)
Whole(b, len) == [buf |-> b, at |-> [k \in 1..len |-> k - 1]]

(* The time axis 1, 2, ..., len; a channel of zeros. *)
Ramp(len) == [i \in 1..len |-> i]
Flat(len) == [i \in 1..len |-> 0]
Signals(len) == [1..len -> Samples]

NameOf(i) == IF i = 1 THEN "time" ELSE IF i = 2 THEN "trigger" ELSE "chan"
UnitOf(i) == IF i = 1 THEN "s" ELSE "V"
Names(len) == [i \in 1..len |-> NameOf(i)]
Units(len) == [i \in 1..len |-> UnitOf(i)]

Args(buffers, frequencies, floatFreqs, channel_names, units, trigger_channel) ==
    [buffers |-> buffers, frequencies |-> frequencies,
     floatFreqs |-> floatFreqs, channel_names |-> channel_names,
     units |-> units, trigger_channel |-> trigger_channel]

(* src = BlueprintInput(timeseries, frequencies, channel_names, units,
   trigger_channel): the state after the constructor ran on the arguments a. *)
Constructed(a) ==
    LET r == BlueprintInput([n \in 1..Len(a.buffers) |->
                                Whole(n, Len(a.buffers[n]))],
                            a.frequencies, a.floatFreqs, a.channel_names,
                            a.units, a.trigger_channel, None, None, 0)
    IN  /\ mem = a.buffers
        /\ src = IF r.raised = "none" THEN Some(r.obj) ELSE None
        /\ res = None
        /\ call = [op |-> "init", args |-> a]
        /\ raised = r.raised
        /\ ncalls = 0
        /\ pre = None
        /\ out = None

(* Slicing: every number of channels, every length and frequency of each
   channel, every trigger; the lists as long as the channels are many. *)
SliceArgs ==
    { Args([n \in 1..nch |-> IF n = 1 THEN Ramp(lens[n]) ELSE Flat(lens[n])],
           fs, TRUE, Names(nch), Units(nch), Some(trig)) :
        <<nch, lens, fs, trig>> \in
          UNION { {nc} \X [1..nc -> 1..MaxLen] \X [1..nc -> Freqs] \X (0..(nc - 1)) :
                  nc \in 1..MaxChannels } }

(* The requests: integers and slices reaching past both ends of the trigger. *)
IntRequests == { IntIdx(i) : i \in (0 - MaxLen - 2)..(MaxLen + 1) }
OptBounds(lo, hi) == {None} \union { Some(v) : v \in lo..hi }
SliceRequests ==
    { SliceIdx(a, b, s) : <<a, b, s>> \in
        OptBounds(-1, MaxLen) \X OptBounds(0, MaxLen + 1) \X {None, Some(2)} }

InitSlice == \E a \in SliceArgs : Constructed(a)

(* One request on a freshly constructed container. *)
SliceByInt ==
    /\ call.op = "init"
    /\ \E idx \in IntRequests : Getitem("src", idx)

SliceByRange ==
    /\ call.op = "init"
    /\ \E idx \in SliceRequests : Getitem("src", idx)

NextSlice == SliceByInt \/ SliceByRange

SpecSlice == InitSlice /\ [][NextSlice]_vars

(* Trigger detection: the time axis and, when the trigger is not the time
   channel itself, a trigger channel of every shape; one frequency. *)
ExampleTrigger == <<0, 0, 3, 3, 0, 0, 3, 3, 3, 0>>
TriggerArgs ==
    { Args(<<Ramp(len)>>, <<1>>, TRUE, Names(1), Units(1), Some(0)) :
        len \in 1..MaxLen }
    \union
    { Args(<<Ramp(len), sig>>, <<1, 1>>, TRUE, Names(2), Units(2), Some(1)) :
        <<len, sig>> \in (1..MaxLen) \X UNION { Signals(l) : l \in 1..MaxLen } }
    \union
    { Args(<<Ramp(Len(ExampleTrigger)), ExampleTrigger>>, <<1, 1>>, TRUE,
           Names(2), Units(2), Some(1)) }

TriggerCalls == Thresholds \X {0, 1, 3} \X RepetitionTimes

InitTrigger == \E a \in TriggerArgs : Constructed(a)

(* Calls in a row on the constructed container, a call repeated among them. *)
CountTriggers ==
    /\ ncalls < MaxCalls
    /\ \E c \in TriggerCalls : CheckTriggerAmount("src", c[1], c[2], c[3])

NextTrigger == CountTriggers

SpecTrigger == InitTrigger /\ [][NextTrigger]_vars

(* Equality: a container whose channels have one length, compared with a
   copy of itself, with copies that differ from it in one sample or in one
   field, and with plain dicts. *)
EqualArgs ==
    { Args([n \in 1..nch |-> IF n = 1 THEN Ramp(len) ELSE sigs[n]],
           [n \in 1..nch |-> 1], TRUE, Names(nch), Units(nch), Some(0)) :
        <<nch, len, sigs>> \in
          UNION { {nc} \X {l} \X [1..nc -> Signals(l)] :
                  <<nc, l>> \in (1..MaxChannels) \X (1..MaxLen) } }

SampleValues == Samples \union {1, 5}

(* The copies of the dict d: d itself and d with one sample changed. *)
CopiesOf(d) ==
    {d} \union
    { [d EXCEPT !.timeseries[n][k] = v] :
        <<n, k, v>> \in UNION { {c} \X (DOMAIN d.timeseries[c]) \X SampleValues :
                                c \in DOMAIN d.timeseries } }

(* The containers that differ from d in one field that is not timeseries, or
   in the number of channels. *)
VariantsOf(d) ==
    { [d EXCEPT !.frequencies[1] = 2], [d EXCEPT !.channel_names[1] = "t"],
      [d EXCEPT !.units[1] = "ms"], [d EXCEPT !.trigger_channel = Some(1)],
      [d EXCEPT !.thr = Some(2)], [d EXCEPT !.time_offset = 1],
      [d EXCEPT !.num_timepoints_found = Some(1)],
      [d EXCEPT !.timeseries = Append(@, @[1])] }

(* The plain dicts: d with a key dropped or renamed, over the copies of d. *)
Renamed(d, k) ==
    [j \in (DOMAIN d \ {k}) \union {"note"} |-> IF j = "note" THEN d[k] ELSE d[j]]
Dropped(d, k) == [j \in DOMAIN d \ {k} |-> d[j]]
MappingsOf(d) ==
    CopiesOf(d) \union
    { Dropped(d, Fields[i]) : i \in 2..Len(Fields) } \union
    { Renamed(c, "time_offset") : c \in CopiesOf(d) }

InitEqual == \E a \in EqualArgs : Constructed(a)

CompareContainers ==
    /\ call.op = "init"
    /\ \E other \in CopiesOf(Dict(mem, Val(src)))
                      \union VariantsOf(Dict(mem, Val(src))) : Equals(other)

CompareWithMapping ==
    /\ call.op = "init"
    /\ \E other \in MappingsOf(Dict(mem, Val(src))) : Equals(other)

NextEqual == CompareContainers \/ CompareWithMapping

SpecEqual == InitEqual /\ [][NextEqual]_vars

(* Sequences of calls on a container and on what slicing it returned: the
   lists one shorter, as long or one longer than the channels are many; the
   time axis, a trigger and channels at twice their frequency. *)
Pulses(len) == [i \in 1..len |-> IF i % 2 = 0 THEN 3 ELSE 0]
FreqOf(i) == IF i <= 2 THEN 1 ELSE 2
(* The trigger_channel arguments for nc channels: None, or an index (0 for a
   container with no channel). *)
Triggers(nc) == {None} \union { Some(t) : t \in 0..Max(nc - 1, 0) }
MainArgs ==
    { Args([n \in 1..nch |-> IF n = 1 THEN Ramp(MaxLen)
                             ELSE Pulses(FreqOf(n) * MaxLen)],
           [i \in 1..(nch + d[1]) |-> IF multi THEN FreqOf(i + 1) ELSE 1], fl,
           Names(nch + d[2]), Units(nch + d[3]), trig) :
        <<nch, d, fl, multi, trig>> \in
          UNION { {nc} \X ({-1, 0, 1} \X {-1, 0, 1} \X {-1, 0, 1}) \X BOOLEAN
                       \X BOOLEAN \X Triggers(nc) : nc \in 0..MaxChannels } }

Targets == {"src", "res"}
MainRequests ==
    { IntIdx(-1), IntIdx(1), IntIdx(MaxLen),
      SliceIdx(Some(1), None, None), SliceIdx(Some(0), Some(2), None) }
MainCalls == {2} \X {0, 3} \X {2}
MainFrequencies == {1, 2, 5}
Removals(n) == { {k} : k \in 0..(n - 1) } \union { 0..(n - 1) }

Init == \E a \in MainArgs : Constructed(a)

Slice ==
    /\ ncalls < MaxCalls
    /\ \E t \in Targets, idx \in MainRequests : Getitem(t, idx)

Detect ==
    /\ ncalls < MaxCalls
    /\ \E t \in Targets, c \in MainCalls :
         CheckTriggerAmount(t, c[1], c[2], c[3])

Remove ==
    /\ ncalls < MaxCalls
    /\ \E t \in Targets :
         /\ Exists(t)
         /\ \E S \in Removals(n_channels(Obj(t))) : RemoveChannels(t, S)

Convert ==
    /\ ncalls < MaxCalls
    /\ \E t \in Targets, f \in MainFrequencies : ToFrequency(t, f)

Next == Slice \/ Detect \/ Remove \/ Convert

Spec == Init /\ [][Next]_vars

(***************************************************************************)
(* The container's lists: C1 and C10, under Spec.                          *)
(***************************************************************************)

SameLengths(obj) ==
    /\ Len(obj.timeseries) = Len(obj.frequencies)
    /\ Len(obj.frequencies) = Len(obj.channel_names)
    /\ Len(obj.channel_names) = Len(obj.units)

(* C1: in every container, after construction, after any slicing and after
   any remove_channels call, in any sequence, timeseries, frequencies,
   channel_names and units have the same length. *)
C1_SameLengths ==
    /\ ~IsNone(src) => SameLengths(Val(src))
    /\ ~IsNone(res) => SameLengths(Val(res))

(* A container built from lists one entry short, then a remove_channels call,
   then a slicing: the container returned has the padded lists. *)
C1_Witness ==
    /\ ncalls = 2
    /\ Val(pre).call.op = "remove_channels"
    /\ call.op = "getitem"
    /\ raised = "none"
    /\ n_channels(Val(res)) = 2
    /\ Val(res).frequencies[2] = 0
    /\ Val(res).channel_names[2] = "unknown"
    /\ Val(res).units[2] = "[]"
    /\ SameLengths(Val(src))
    /\ SameLengths(Val(res))

Removed == call.op = "remove_channels"
Target == IF call.target = "src" THEN src ELSE res
TargetBefore == IF call.target = "src" THEN Val(pre).src ELSE Val(pre).res
(* The position of the trigger in the container the call was made on. *)
TriggerIndexBefore == Val(Val(TargetBefore).trigger_channel)

(* C10: remove_channels completes; with the trigger's index among the indices
   it deletes the entries at the indices from the four lists and leaves
   trigger_channel None; with the trigger's index not among them it leaves
   trigger_channel set. *)
C10_Claim ==
    Removed =>
        /\ raised = "none"
        /\ n_channels(Val(Target)) =
             n_channels(Val(TargetBefore)) - Cardinality(call.channel_idx)
        /\ SameLengths(Val(Target))
        /\ IF TriggerIndexBefore \in call.channel_idx
           THEN IsNone(Val(Target).trigger_channel)
           ELSE ~IsNone(Val(Target).trigger_channel)

(***************************************************************************)
(* Slicing: C2 - C5, under SpecSlice.                                      *)
(***************************************************************************)

(* floor(num / den) for den > 0, from its definition. *)
FloorDiv(num, den) ==
    CHOOSE q \in (0 - (MaxLen + 3) * 4)..((MaxLen + 3) * 4) :
        q * den <= num /\ num < (q + 1) * den

(* The positions lo, lo + 1, ..., hi - 1 that a channel of length len has. *)
Window(lo, hi, len) ==
    [j \in 1..(Min(hi, len) - Min(lo, len)) |-> Min(lo, len) + j - 1]

Sliced == call.op = "getitem" /\ call.target = "src"
SrcTrigger == PyIndex(n_channels(Val(src)), Val(Val(src).trigger_channel))
TriggerLength == Len(Val(src).timeseries[SrcTrigger].at)
TriggerFreq == Val(src).frequencies[SrcTrigger]
ChannelLength(n) == Len(Val(src).timeseries[n].at)
(* floor(f_n / f_trig * v) *)
Scaled(n, v) == FloorDiv(Val(src).frequencies[n] * v, TriggerFreq)
ResultAt(n) == Val(res).timeseries[n].at
Channels == 1..n_channels(Val(src))
(* A container as the class asks for it: every frequency above zero, the
   trigger as long as the time channel and at its frequency. *)
WellFormed ==
    /\ \A n \in Channels : Val(src).frequencies[n] > 0
    /\ Val(src).frequencies[1] = TriggerFreq
    /\ ChannelLength(1) = TriggerLength

(* A request [a, b) with both ends given, no step, inside the trigger. *)
InBoundsRange ==
    /\ Sliced
    /\ call.idx.kind = "slice"
    /\ ~IsNone(call.idx.start) /\ ~IsNone(call.idx.stop) /\ IsNone(call.idx.step)
    /\ 0 <= Val(call.idx.start)
    /\ Val(call.idx.start) <= Val(call.idx.stop)
    /\ Val(call.idx.stop) < TriggerLength
    /\ TriggerFreq # 0

(* C2 as stated: an in-bounds range [a, b) with no step yields, in a channel
   of frequency k * F, floor(k * b) - floor(k * a) samples, one when that
   difference is zero. *)
C2_Claim ==
    (InBoundsRange /\ WellFormed) =>
        /\ raised = "none"
        /\ \A n \in Channels :
             LET d == Scaled(n, Val(call.idx.stop)) - Scaled(n, Val(call.idx.start))
             IN  Len(ResultAt(n)) = IF d = 0 THEN 1 ELSE d

(* C2 amended: an in-bounds range [a, b) with no step returns, for each
   channel n, the samples the channel has at the positions floor(k * a) up to
   floor(k * b) (up to floor(k * a) + 1 when the two are equal), with
   k = f_n / f_trig: floor(k * b) - floor(k * a) samples (one when that is
   zero) when the channel is at least that long, fewer when it is shorter. *)
C2_Proportional ==
    InBoundsRange =>
        /\ raised = "none"
        /\ \A n \in Channels :
             LET lo == Scaled(n, Val(call.idx.start))
                 b == Scaled(n, Val(call.idx.stop))
                 hi == IF b = lo THEN lo + 1 ELSE b
             IN  /\ ResultAt(n) = Window(lo, hi, ChannelLength(n))
                 /\ ChannelLength(n) >= hi => Len(ResultAt(n)) = hi - lo

C2_Witness ==
    /\ InBoundsRange
    /\ WellFormed
    /\ raised = "none"
    /\ \E n \in Channels :
         /\ Val(src).frequencies[n] = 2 * TriggerFreq
         /\ Val(call.idx.stop) > Val(call.idx.start)
         /\ Len(ResultAt(n)) = 2 * (Val(call.idx.stop) - Val(call.idx.start))

(* An integer request and the index it resolves to. *)
IntRequest == Sliced /\ call.idx.kind = "int"
Resolved ==
    IF Val(call.idx.start) < 0 THEN TriggerLength + Val(call.idx.start)
    ELSE Val(call.idx.start)

(* C3 as stated: slicing by an integer returns exactly one sample in every
   channel, whatever the channels' frequencies and lengths. *)
C3_Claim ==
    (IntRequest /\ 0 <= Resolved /\ Resolved < TriggerLength /\ WellFormed) =>
        /\ raised = "none"
        /\ \A n \in Channels : Len(ResultAt(n)) = 1

(* C3 amended: an integer i that resolves (as i, or as trigger_length + i
   when negative) to r with 0 <= r < trigger_length returns, for each channel
   n, the one sample at position floor(f_n / f_trig * r) when the channel has
   a sample there, and no sample when the channel is shorter. *)
C3_Instant ==
    (IntRequest /\ 0 <= Resolved /\ Resolved < TriggerLength /\ TriggerFreq # 0) =>
        /\ raised = "none"
        /\ \A n \in Channels :
             ResultAt(n) = IF Scaled(n, Resolved) < ChannelLength(n)
                           THEN <<Scaled(n, Resolved)>> ELSE <<>>

C3_Witness ==
    /\ IntRequest
    /\ WellFormed
    /\ Val(call.idx.start) < 0
    /\ Resolved > 0
    /\ raised = "none"
    /\ \E n \in Channels :
         /\ Val(src).frequencies[n] # TriggerFreq
         /\ ResultAt(n) = <<Scaled(n, Resolved)>>
         /\ Scaled(n, Resolved) # Resolved

(* The start and stop a request asks for, in trigger samples. *)
AskedStart ==
    IF call.idx.kind = "int" THEN Resolved
    ELSE IF IsNone(call.idx.start) THEN 0 ELSE Val(call.idx.start)
AskedStop ==
    IF call.idx.kind = "int" THEN Resolved + 1
    ELSE IF IsNone(call.idx.stop) THEN TriggerLength ELSE Val(call.idx.stop)

(* C4: every request whose resolved start or stop lies outside the trigger's
   bounds raises IndexError and returns no container. *)
C4_Claim ==
    (/\ Sliced
     /\ WellFormed
     /\ \/ AskedStart < 0 \/ AskedStart >= TriggerLength
        \/ AskedStop < 0 \/ AskedStop > TriggerLength) =>
        raised = "IndexError" /\ IsNone(res)

(* A range that ends at the trigger's full length, with no step. *)
ToTheEnd ==
    /\ Sliced
    /\ call.idx.kind = "slice"
    /\ IsNone(call.idx.step)
    /\ AskedStop = TriggerLength
    /\ 0 <= AskedStart /\ AskedStart < TriggerLength
    /\ TriggerFreq # 0

(* C5 as stated: a range whose stop is the trigger's full length returns, for
   every channel, all samples from the rescaled start to the channel's own
   last sample. *)
C5_Claim ==
    (ToTheEnd /\ WellFormed) =>
        /\ raised = "none"
        /\ \A n \in Channels :
             ResultAt(n) = Window(Scaled(n, AskedStart), ChannelLength(n),
                                  ChannelLength(n))

(* C5 amended: a range whose stop is the trigger's full length succeeds and
   returns, for every channel, all samples from the rescaled start to the
   channel's own last sample, except for a channel whose rescaled start
   equals its rescaled stop floor(f_n / f_trig * trigger_length): that channel
   is cut to the one-sample window at its rescaled start. *)
C5_FullLength ==
    ToTheEnd =>
        /\ raised = "none"
        /\ \A n \in Channels :
             LET lo == Scaled(n, AskedStart)
                 hi == IF lo = Scaled(n, TriggerLength) THEN lo + 1
                       ELSE ChannelLength(n)
             IN  ResultAt(n) = Window(lo, hi, ChannelLength(n))

C5_Witness ==
    /\ ToTheEnd
    /\ WellFormed
    /\ AskedStart > 0
    /\ raised = "none"
    /\ \E n \in Channels :
         /\ ChannelLength(n) > Scaled(n, TriggerLength)
         /\ Scaled(n, AskedStart) > 0
         /\ ResultAt(n) = Window(Scaled(n, AskedStart), ChannelLength(n),
                                 ChannelLength(n))
         /\ Len(ResultAt(n)) > 1

(***************************************************************************)
(* Trigger detection: C6 - C9, under SpecTrigger.                          *)
(***************************************************************************)

Checked == call.op = "check_trigger_amount" /\ call.target = "src"
Returned == Checked /\ raised = "none"
(* The trigger and the time channel as the call found them, the time channel
   as the call left it. *)
TriggerSamples == Read(Val(pre).mem, Val(src).timeseries[SrcTrigger])
TimeBefore == Read(Val(pre).mem, Val(src).timeseries[1])
TimeAfter == Read(mem, Val(src).timeseries[1])
(* The samples above the threshold, and those that start a run of them. *)
AboveThr == { k \in DOMAIN TriggerSamples : TriggerSamples[k] > call.thr }
RunStarts == { k \in AboveThr : (k - 1) \notin AboveThr }
(* The first sample above the threshold; the first sample when none is. *)
FirstAbove ==
    IF AboveThr = {} THEN 1
    ELSE CHOOSE k \in AboveThr : \A j \in AboveThr : k <= j
(* The timepoints missing from the expected number, when a repetition time
   is given to correct for them. *)
MissingTime ==
    IF call.num_timepoints_expected > Cardinality(RunStarts) /\ call.tr # 0
    THEN (call.num_timepoints_expected - Cardinality(RunStarts)) * call.tr
    ELSE 0

(* C6: num_timepoints_found is the number of maximal runs of consecutive
   trigger samples strictly above the threshold, not the number of samples
   above it. *)
C6_CountsRuns ==
    Returned => Val(src).num_timepoints_found = Some(Cardinality(RunStarts))

C6_Witness ==
    /\ Returned
    /\ TriggerSamples = ExampleTrigger
    /\ call.thr = 2
    /\ Cardinality(AboveThr) = 5
    /\ Val(src).num_timepoints_found = Some(2)

(* C7 as stated: after check_trigger_amount the time channel's first sample
   equals 0.  Stated for the case that favours it most: a trigger channel of
   its own with a sample above the threshold, and no correction for missing
   timepoints. *)
C7_Claim ==
    (Returned /\ SrcTrigger # 1 /\ AboveThr # {} /\ MissingTime = 0) =>
        TimeAfter[1] = 0

(* C7 amended: after check_trigger_amount the time channel's sample at the
   first trigger sample above the threshold (its first sample when none is
   above) equals 0, or (expected - detected) * tr when the correction for
   missing timepoints applied. *)
C7_ZeroAtFirstPulse == Returned => TimeAfter[FirstAbove] = MissingTime

C7_Witness ==
    /\ Returned
    /\ FirstAbove > 1
    /\ MissingTime = 0
    /\ TimeAfter[FirstAbove] = 0
    /\ TimeAfter[1] < 0

(* C8: time_offset is the time at the first sample above the threshold minus
   (expected - detected) * tr when more timepoints are expected than detected
   and tr is not 0, and that time alone in every other case. *)
C8_Offset ==
    Returned =>
        Val(src).time_offset =
            IF call.num_timepoints_expected > Cardinality(RunStarts) /\ call.tr # 0
            THEN TimeBefore[FirstAbove]
                 - (call.num_timepoints_expected - Cardinality(RunStarts)) * call.tr
            ELSE TimeBefore[FirstAbove]

C8_Witness ==
    /\ Returned
    /\ AboveThr # {}
    /\ call.num_timepoints_expected = 3
    /\ Cardinality(RunStarts) = 1
    /\ call.tr = 2
    /\ Val(src).time_offset = TimeBefore[FirstAbove] - 4

(* The call just made repeats, with the same arguments, the call before it. *)
Repeated ==
    /\ Returned
    /\ Val(pre).call = call
    /\ Val(pre).raised = "none"

(* C9 as stated: a second call with the same arguments changes the time
   channel again.  Stated for the case that favours it most: a trigger channel
   of its own with a sample above the threshold, and a first call that found
   an offset other than 0. *)
C9_Claim ==
    (/\ Repeated
     /\ SrcTrigger # 1
     /\ AboveThr # {}
     /\ Val(Val(pre).src).time_offset # 0) =>
        TimeAfter # TimeBefore

(* C9 amended: when the trigger channel is not the time channel, a second
   call with the same arguments finds the offset 0: it leaves the time channel
   as the first call left it, and overwrites the recorded time_offset with 0.
   (The second call is not idempotent on time_offset, which loses the first
   call's offset; it shifts the time channel again only when the trigger
   channel is the time channel itself.) *)
C9_SecondCall ==
    (Repeated /\ SrcTrigger # 1) =>
        /\ TimeAfter = TimeBefore
        /\ Val(src).time_offset = 0

C9_Witness ==
    /\ Repeated
    /\ SrcTrigger # 1
    /\ Val(Val(pre).src).time_offset # 0
    /\ Val(src).time_offset = 0
    /\ TimeAfter = TimeBefore
    /\ TimeAfter # Ramp(Len(TimeAfter))
    /\ FirstAbove > 1
    /\ MissingTime # 0

(***************************************************************************)
(* to_frequency: C11 and C12, under Spec.                                  *)
(***************************************************************************)

Converted == call.op = "to_frequency"
(* The 1-based positions of the channels of obj at frequency f, in order. *)
RECURSIVE AtFrequency(_, _, _)
AtFrequency(obj, f, n) ==
    IF n > Len(obj.frequencies) THEN <<>>
    ELSE (IF obj.frequencies[n] = f THEN <<n>> ELSE <<>>)
         \o AtFrequency(obj, f, n + 1)
Retained == AtFrequency(Val(TargetBefore), call.frequency, 1)
Pick(list, at) == [k \in 1..Len(at) |-> list[at[k]]]

(* C11: to_frequency with a frequency some channel has returns a
   SingleFrequencyPhysio at that frequency whose columns are the channels at
   the frequency, in their order, with their names and units: its matrix has
   one row per timepoint and one column per retained channel. *)
C11_Claim ==
    (Converted /\ Retained # <<>>) =>
        /\ raised = "none"
        /\ ~IsNone(out)
        /\ Val(out).frequencies = call.frequency
        /\ Val(out).channel_names = Pick(Val(TargetBefore).channel_names, Retained)
        /\ Val(out).units = Pick(Val(TargetBefore).units, Retained)
        /\ \A row \in DOMAIN Val(out).timeseries :
             Val(out).timeseries[row] =
               [k \in 1..Len(Retained) |->
                  Read(Val(pre).mem,
                       Val(TargetBefore).timeseries[Retained[k]])[row]]
        /\ Len(Val(out).timeseries) =
             Len(Val(TargetBefore).timeseries[Retained[1]].at)

(* C12: to_frequency with a frequency no channel has raises ValueError and no
   other kind of error, and leaves the container and its arrays as they
   were. *)
C12_Claim ==
    (Converted /\ Retained = <<>>) =>
        /\ raised = "ValueError"
        /\ Target = TargetBefore
        /\ mem = Val(pre).mem

(***************************************************************************)
(* Equality: C13, under SpecEqual.                                         *)
(***************************************************************************)

Compared == call.op = "eq"
Mine == Dict(Val(pre).mem, Val(Val(pre).src))
SameFields == DOMAIN Mine = DOMAIN call.other
SameArrays ==
    /\ Len(Mine.timeseries) = Len(call.other.timeseries)
    /\ \A n \in DOMAIN Mine.timeseries :
         Mine.timeseries[n] = call.other.timeseries[n]

(* C13: a container and another container, or a plain mapping, compare equal
   if and only if they have the same fields, every field other than
   timeseries is equal and every array of timeseries is equal element by
   element: containers that differ in one sample compare unequal. *)
C13_Claim ==
    Compared =>
        (Val(out) <=>
            /\ SameFields
            /\ \A k \in DOMAIN Mine \ {"timeseries"} : Mine[k] = call.other[k]
            /\ SameArrays)

(***************************************************************************)
(* Slicing and its source: C14, C15, under Spec.                           *)
(***************************************************************************)

(* The source, its fields and the samples of its arrays, are as they were
   when the last call was entered. *)
SourceKept ==
    /\ src = Val(pre).src
    /\ \A n \in DOMAIN Val(src).timeseries :
         Read(mem, Val(src).timeseries[n]) =
           Read(Val(pre).mem, Val(src).timeseries[n])

(* C14: slicing does not change the container it slices, and a later
   check_trigger_amount or remove_channels on the container it returned
   changes no field and no sample of the source. *)
C14_Claim ==
    /\ (call.op = "getitem" /\ call.target = "src") => SourceKept
    /\ (call.op \in {"check_trigger_amount", "remove_channels"}
          /\ call.target = "res") => SourceKept

(* The trigger of obj, when set, is an index of timeseries and its channel has
   the frequency of channel 0. *)
TriggerSound(obj) ==
    ~IsNone(obj.trigger_channel) =>
        /\ PyIndex(n_channels(obj), Val(obj.trigger_channel)) # 0
        /\ obj.frequencies[1] =
             obj.frequencies[PyIndex(n_channels(obj), Val(obj.trigger_channel))]
TriggerSet(obj) == ~IsNone(obj.trigger_channel) /\ TriggerSound(obj)
(* The array the trigger of obj designates. *)
TriggerArray(obj) ==
    obj.timeseries[PyIndex(n_channels(obj), Val(obj.trigger_channel))]
(* The array a is the array b or a part of it. *)
PartOf(a, b) ==
    /\ a.buf = b.buf
    /\ \A k \in DOMAIN a.at : \E j \in DOMAIN b.at : a.at[k] = b.at[j]

(* The container the call was made on is no longer in scope: it was `res`, and
   the slicing returned a new `res`. *)
Replaced == call.op = "getitem" /\ call.target = "res" /\ raised = "none"

(* C15: a slicing or a remove_channels call on a container whose trigger is a
   valid index, with frequencies[0] = frequencies[trigger], leaves that
   container, and the container a slicing returns, with a trigger that, when
   set, is a valid index with frequencies[0] = frequencies[trigger] and
   designates the data of the channel it designated before the call. *)
C15_TriggerKept ==
    (call.op \in {"getitem", "remove_channels"} /\ TriggerSet(Val(TargetBefore)))
    =>
        /\ ~Replaced =>
             /\ TriggerSound(Val(Target))
             /\ ~IsNone(Val(Target).trigger_channel) =>
                  TriggerArray(Val(Target)) = TriggerArray(Val(TargetBefore))
        /\ (call.op = "getitem" /\ raised = "none") =>
             /\ TriggerSet(Val(res))
             /\ PartOf(TriggerArray(Val(res)), TriggerArray(Val(TargetBefore)))

(* A remove_channels call with the trigger's index, then a slicing of the
   same two-channel container, whose trigger is its second channel. *)
C15_Witness ==
    /\ ncalls = 2
    /\ Val(pre).call.op = "remove_channels"
    /\ Val(pre).call.target = "src"
    /\ 1 \in Val(pre).call.channel_idx
    /\ call.op = "getitem"
    /\ call.target = "src"
    /\ raised = "none"
    /\ TriggerSet(Val(TargetBefore))
    /\ Val(src).trigger_channel = Some(1)
    /\ Val(res).trigger_channel = Some(1)
    /\ Len(TriggerArray(Val(res)).at) > 0

(***************************************************************************)
(* Construction: C16 and C17, under Spec.                                  *)
(***************************************************************************)

Built == call.op = "init"
(* The list cut to n entries, or filled up to n entries with the token. *)
Fitted(list, n, token) ==
    IF Len(list) >= n THEN SubSeq(list, 1, n)
    ELSE list \o [k \in 1..(n - Len(list)) |-> token]
(* A value of the arguments has the wrong type: the trigger is no integer, or
   the frequencies to fill up with 0.0 are integers. *)
WrongType(a) ==
    \/ IsNone(a.trigger_channel)
    \/ /\ ~a.floatFreqs
       /\ Len(a.frequencies) > 0
       /\ Len(a.frequencies) < Len(a.buffers)

(* C16: the constructor fits frequencies, channel_names and units to the
   number of channels, whatever their lengths, an empty list included: a
   longer list is cut, a shorter one filled up at its end with 0.0, "unknown"
   or "[]", the entries it had unchanged.  It raises nothing but a type
   error, and that only when a value has the wrong type. *)
C16_Claim ==
    Built =>
        /\ raised \in {"none", "AttributeError"}
        /\ raised = "AttributeError" => WrongType(call.args)
        /\ raised = "none" =>
             /\ Val(src).frequencies =
                  Fitted(call.args.frequencies, Len(call.args.buffers), 0)
             /\ Val(src).channel_names =
                  Fitted(call.args.channel_names, Len(call.args.buffers), "unknown")
             /\ Val(src).units =
                  Fitted(call.args.units, Len(call.args.buffers), "[]")

(* The container the call was made on, its trigger_channel set to 0. *)
WithTriggerZero == [Val(TargetBefore) EXCEPT !.trigger_channel = Some(0)]

(* C17: a container can be constructed with trigger_channel None; slicing
   and check_trigger_amount on a container whose trigger_channel is None
   complete as, and give what, they do on the same container with
   trigger_channel 0. *)
C17_Claim ==
    /\ (Built /\ IsNone(call.args.trigger_channel)
             /\ Len(call.args.frequencies) = Len(call.args.buffers)
             /\ Len(call.args.channel_names) = Len(call.args.buffers)
             /\ Len(call.args.units) = Len(call.args.buffers)) =>
          /\ raised = "none"
          /\ ~IsNone(src)
          /\ IsNone(Val(src).trigger_channel)
    /\ (call.op = "getitem" /\ IsNone(Val(TargetBefore).trigger_channel)) =>
          LET r == getitem(WithTriggerZero, call.idx)
          IN  /\ raised = r.raised
              /\ raised = "none" => res = Some(r.obj)
    /\ (call.op = "check_trigger_amount"
             /\ IsNone(Val(TargetBefore).trigger_channel)) =>
          LET r == check_trigger_amount(Val(pre).mem, WithTriggerZero, call.thr,
                                        call.num_timepoints_expected, call.tr)
          IN  /\ raised = r.raised
              /\ mem = r.mem
              /\ [Val(Target) EXCEPT !.trigger_channel = Some(0)] = r.obj

====
